---- MODULE Spec2Model ----
(***************************************************************************)
(* State-machine model of the blogicum blog application                    *)
(* (blog/models.py, blog/service.py, blog/mixins.py, blog/views.py).       *)
(*                                                                         *)
(* The relational store is the state: users, categories, posts, comments   *)
(* and the two auto-increment primary-key counters.  Every route handler   *)
(* of blog/views.py is one action; it reads the request (the viewer, the   *)
(* method, the path arguments, the submitted form) from small sets and     *)
(* leaves its HTTP outcome in `response`.                                  *)
(***************************************************************************)
EXTENDS Integers, Sequences, FiniteSets, TLC

VARIABLES users, profiles, categories, locations, posts, comments,
          next_post_id, next_comment_id, now, response, inflight

vars == <<users, profiles, categories, locations, posts, comments,
          next_post_id, next_comment_id, now, response, inflight>>

store == <<users, profiles, categories, locations, posts, comments,
           next_post_id, next_comment_id>>

-----------------------------------------------------------------------------
(* Bounds of the model.                                                    *)

MaxPosts == 2

MaxComments == 2

MaxTime == 1

MaxItems == 4

MaxPerPage == 2

-----------------------------------------------------------------------------
(* Identities and input sets.                                              *)

UserNames == {"u1", "u2", "u3"}

StaffUsers == {"u3"}

Anonymous == "anonymous"

Viewers == UserNames \cup {Anonymous}

CategorySlugs == {"c1", "c2"}

NullCategory == "null"

LocationIds == {"l1"}

NullLocation == "null"

FirstNames == {"n0", "n1"}

Requests == {"r1", "r2"}

PostIds == 1..MaxPosts

CommentIds == 1..MaxComments

PubDates == 0..MaxTime

EmptyText == ""

is_authenticated(user) == user \in users

-----------------------------------------------------------------------------
(* Pagination: django Paginator(queryset, per_page).get_page(raw), as      *)
(* called by service.paginate.  The raw `page` query value is a string     *)
(* (a sequence of characters) or missing.                                  *)

POSTS_LIMIT == 2

Digits == {"0", "1", "2", "3", "4", "5", "6", "7", "8", "9"}

\* The characters the raw values of the model are made of
PageChars == {"0", "1", "2", "3", "-", "a"}

NoPageParam == [given |-> FALSE, raw |-> <<>>]

GivenPage(s) == [given |-> TRUE, raw |-> s]

DigitValue(c) ==
    CASE c = "0" -> 0 [] c = "1" -> 1 [] c = "2" -> 2 [] c = "3" -> 3
      [] c = "4" -> 4 [] c = "5" -> 5 [] c = "6" -> 6 [] c = "7" -> 7
      [] c = "8" -> 8 [] OTHER -> 9

RECURSIVE DigitsValue(_)
DigitsValue(s) ==
    IF s = <<>> THEN 0
    ELSE 10 * DigitsValue(SubSeq(s, 1, Len(s) - 1)) + DigitValue(s[Len(s)])

AllDigits(s) == Len(s) >= 1 /\ \A i \in 1..Len(s) : s[i] \in Digits

\* int(number): an optional sign followed by at least one digit
IsInteger(param) ==
    /\ param.given
    /\ \/ AllDigits(param.raw)
       \/ Len(param.raw) >= 2 /\ param.raw[1] = "-" /\ AllDigits(Tail(param.raw))

IntValue(param) ==
    IF param.raw[1] = "-" THEN 0 - DigitsValue(Tail(param.raw))
    ELSE DigitsValue(param.raw)

\* Paginator.num_pages with orphans = 0 and allow_empty_first_page = True
num_pages(count, per_page) ==
    LET hits == IF count >= 1 THEN count ELSE 1
    IN  (hits + per_page - 1) \div per_page

\* get_page sending a number below 1 to the first page
get_page_number_first(param, count, per_page) ==
    IF ~IsInteger(param) THEN 1
    ELSE IF IntValue(param) < 1 THEN 1
    ELSE IF IntValue(param) > num_pages(count, per_page)
         THEN num_pages(count, per_page)
    ELSE IntValue(param)

\* Paginator.get_page: PageNotAnInteger -> 1, EmptyPage -> num_pages
get_page_number(param, count, per_page) ==
    IF ~IsInteger(param) THEN 1
    ELSE IF IntValue(param) < 1 THEN num_pages(count, per_page)
    ELSE IF IntValue(param) > num_pages(count, per_page)
         THEN num_pages(count, per_page)
    ELSE IntValue(param)

\* page() taking its slice one page too far
page_slice_off_by_one(object_list, number, per_page) ==
    LET bottom == number * per_page
        top    == IF bottom + per_page >= Len(object_list)
                  THEN Len(object_list) ELSE bottom + per_page
    IN  SubSeq(object_list, bottom + 1, top)

\* Paginator.page(number): the slice object_list[bottom:top]
page_slice(object_list, number, per_page) ==
    LET bottom == (number - 1) * per_page
        top    == IF bottom + per_page >= Len(object_list)
                  THEN Len(object_list) ELSE bottom + per_page
    IN  SubSeq(object_list, bottom + 1, top)

paginate(object_list, param, items_per_page) ==
    LET count  == Len(object_list)
        number == get_page_number(param, count, items_per_page)
    IN  [ number       |-> number,
          object_list  |-> page_slice(object_list, number, items_per_page),
          num_pages    |-> num_pages(count, items_per_page),
          has_next     |-> number < num_pages(count, items_per_page),
          has_previous |-> number > 1 ]

NoPage == [ number |-> 0, object_list |-> <<>>, num_pages |-> 0,
            has_next |-> FALSE, has_previous |-> FALSE ]

-----------------------------------------------------------------------------
(* The store: rows of blog/models.py.                                      *)

\* a form whose `author` key reaches the saved row
Post_author_from_form(author, form) ==
    [ author       |-> IF "author" \in DOMAIN form THEN form.author ELSE author,
      pub_date     |-> form.pub_date,
      is_published |-> form.is_published,
      category     |-> form.category,
      location     |-> IF "location" \in DOMAIN form
                       THEN form.location ELSE NullLocation ]

\* location is the one optional field of the form (blank=True): a
\* submission without it stores null
Post(author, form) ==
    [ author       |-> author,
      pub_date     |-> form.pub_date,
      is_published |-> form.is_published,
      category     |-> form.category,
      location     |-> IF "location" \in DOMAIN form
                       THEN form.location ELSE NullLocation ]

\* PublishedModel.is_published of a row saved without the field
is_published_default == TRUE

\* a comment saved under the author of the commented post
Comment_author_of_post(author, post_id, text) ==
    [ author       |-> posts[post_id].author,
      comment_post |-> post_id,
      text         |-> text,
      is_published |-> is_published_default ]

\* CommentForm.save(commit=False), then comment_post and author are set
Comment(author, post_id, text) ==
    [ author       |-> author,
      comment_post |-> post_id,
      text         |-> text,
      is_published |-> is_published_default ]

\* Reverse accessors the model classes end up with: Post.Meta sets
\* default_related_name = '%(class)ss', the two Comment keys and Post.likes
\* name theirs.
RelatedNames ==
    [ User     |-> {"posts", "comments", "liked_posts"},
      Category |-> {"posts"},
      Location |-> {"posts"},
      Post     |-> {"comments"} ]

\* getattr(instance, name) for a reverse relation; AttributeError otherwise
has_related_manager(model, name) == name \in RelatedNames[model]

\* user.<posts>.all() and category.<posts>.all()
posts_of_author(user) == {p \in DOMAIN posts : posts[p].author = user}

posts_of_category(slug) == {p \in DOMAIN posts : posts[p].category = slug}

\* post.comments: the comments whose comment_post is the post
comments_of_post(p) == {c \in DOMAIN comments : comments[c].comment_post = p}

\* a comment key without the cascade: the comments of a deleted post stay
cascade_comments_none(deleted_posts) == comments

\* on_delete = CASCADE from Comment.comment_post
cascade_comments(deleted_posts) ==
    [c \in {d \in DOMAIN comments : comments[d].comment_post \notin deleted_posts}
        |-> comments[c]]

-----------------------------------------------------------------------------
(* service.get_filtered_posts.  A queryset argument is None or a set of    *)
(* post rows; `posts or Post.objects.all()` takes the default whenever the *)
(* argument is falsy, and an empty QuerySet is falsy.                      *)

QNone == [none |-> TRUE, ids |-> {}]

QS(ids) == [none |-> FALSE, ids |-> ids]

truthy(qs) == ~qs.none /\ qs.ids # {}

\* the category test written as a LEFT JOIN that lets a null category pass
category__is_published_or_null(p) ==
    \/ posts[p].category = NullCategory
    \/ /\ posts[p].category \in DOMAIN categories
       /\ categories[posts[p].category].is_published

\* filter(category__is_published=True): an inner join on the category row
category__is_published(p) ==
    /\ posts[p].category \in DOMAIN categories
    /\ categories[posts[p].category].is_published

\* filter(pub_date__lte=time_now, is_published=True, category__is_published=True)
passes_filter(p, time_now) ==
    /\ posts[p].pub_date <= time_now
    /\ posts[p].is_published
    /\ category__is_published(p)

\* annotate(comment_count=Count('comments')): LEFT OUTER JOIN on the comment
\* table, GROUP BY post, COUNT of the non-null comment ids
joined_rows(ids) ==
    UNION { IF comments_of_post(p) = {}
            THEN {<<p, 0>>}
            ELSE {<<p, c>> : c \in comments_of_post(p)} : p \in ids }

\* Count('comments') restricted to the published comments
Count_comments_published(ids, p) ==
    Cardinality({r \in joined_rows(ids) :
        r[1] = p /\ r[2] # 0 /\ comments[r[2]].is_published})

Count_comments(ids, p) ==
    Cardinality({r \in joined_rows(ids) : r[1] = p /\ r[2] # 0})

get_filtered_posts(qs, apply_filter, apply_annotation) ==
    LET base     == IF truthy(qs) THEN qs.ids ELSE DOMAIN posts
        time_now == now
        filtered == IF apply_filter
                    THEN {p \in base : passes_filter(p, time_now)}
                    ELSE base
    IN  [ ids           |-> filtered,
          annotated     |-> apply_annotation,
          comment_count |-> IF apply_annotation
                            THEN [p \in filtered |-> Count_comments(filtered, p)]
                            ELSE <<>> ]

\* order_by('-pub_date') and Meta.ordering = ['-pub_date']: rows with equal
\* pub_date come in whatever order the database returns them
order_by_pub_date(ids) ==
    {s \in [1..Cardinality(ids) -> ids] :
        /\ \A i, j \in 1..Cardinality(ids) : i # j => s[i] # s[j]
        /\ \A i, j \in 1..Cardinality(ids) :
              i < j => posts[s[i]].pub_date >= posts[s[j]].pub_date}

-----------------------------------------------------------------------------
(* The outcome of the last request.                                        *)

Blank ==
    [ route |-> "none", user |-> Anonymous, method |-> "GET",
      post_id |-> 0, comment_id |-> 0, name |-> "",
      status |-> "none", target |-> "", target_id |-> 0, target_name |-> "",
      object_list |-> <<>>, annotated |-> FALSE, comment_count |-> <<>>,
      request |-> "", param |-> NoPageParam, per_page |-> 0, page |-> NoPage, time_now |-> 0 ]

Methods == {"GET", "POST"}

PostForms ==
    [ pub_date : PubDates, is_published : BOOLEAN,
      category : CategorySlugs \cup {NullCategory} ]

\* PostCreateForm.is_valid(): category is a required choice among the
\* stored categories (null=True without blank=True)
post_form_valid(form) ==
    /\ form.category \in DOMAIN categories
    /\ "location" \in DOMAIN form => form.location \in DOMAIN locations

\* a form accepting an empty text
comment_form_valid_any(text) == TRUE

\* CommentForm.is_valid(): text is required
comment_form_valid(text) == text # EmptyText

\* a request slot: idle, or an edit between its load and its save
Idle ==
    [ pc |-> "idle", route |-> "none", user |-> Anonymous, pk |-> 0,
      post_id |-> 0, instance |-> <<>>, status |-> "none" ]

Init ==
    /\ users = UserNames
    /\ profiles = [u \in UserNames |-> [first_name |-> "n0"]]
    /\ categories = [c \in CategorySlugs |-> [is_published |-> (c = "c1")]]
    /\ locations = [l \in LocationIds |-> [is_published |-> TRUE]]
    /\ inflight = [r \in Requests |-> Idle]
    /\ posts = <<>>
    /\ comments = <<>>
    /\ next_post_id = 1
    /\ next_comment_id = 1
    /\ now = 0
    /\ response = Blank

Tick ==
    /\ now < MaxTime
    /\ now' = now + 1
    /\ UNCHANGED <<store, response, inflight>>

-----------------------------------------------------------------------------
(* Read routes of blog/views.py.                                           *)

\* GET /
index(param) ==
    LET qs == get_filtered_posts(QNone, TRUE, TRUE)
    IN  /\ \E object_list \in order_by_pub_date(qs.ids) :
              response' = [Blank EXCEPT
                  !.route = "index", !.status = "ok",
                  !.object_list = object_list,
                  !.annotated = qs.annotated,
                  !.comment_count = qs.comment_count,
                  !.param = param, !.per_page = POSTS_LIMIT,
                  !.page = paginate(object_list, param, POSTS_LIMIT),
                  !.time_now = now]
        /\ UNCHANGED <<store, now, inflight>>

\* The listing profile() builds once user.post has resolved
profile_queryset(viewer, username) ==
    IF viewer # username \/ ~is_authenticated(viewer)
    THEN get_filtered_posts(QS(posts_of_author(username)), TRUE, TRUE)
    ELSE [ ids |-> posts_of_author(username), annotated |-> FALSE,
           comment_count |-> <<>> ]

\* GET /profile/<username>/
profile(viewer, username, param) ==
    /\ IF username \notin users
       THEN response' = [Blank EXCEPT
               !.route = "profile", !.user = viewer, !.name = username,
               !.status = "not_found", !.time_now = now]
       ELSE IF ~has_related_manager("User", "post")
       THEN response' = [Blank EXCEPT
               !.route = "profile", !.user = viewer, !.name = username,
               !.status = "error", !.time_now = now]
       ELSE LET qs == profile_queryset(viewer, username)
            IN  \E object_list \in order_by_pub_date(qs.ids) :
                  response' = [Blank EXCEPT
                      !.route = "profile", !.user = viewer, !.name = username,
                      !.status = "ok",
                      !.object_list = object_list,
                      !.annotated = qs.annotated,
                      !.comment_count = qs.comment_count,
                      !.param = param, !.per_page = POSTS_LIMIT,
                      !.page = paginate(object_list, param, POSTS_LIMIT),
                      !.time_now = now]
    /\ UNCHANGED <<store, now, inflight>>

\* GET /category/<slug>/
category_posts(category_slug, param) ==
    /\ IF ~(category_slug \in DOMAIN categories
            /\ categories[category_slug].is_published)
       THEN response' = [Blank EXCEPT
               !.route = "category_posts", !.name = category_slug,
               !.status = "not_found", !.time_now = now]
       ELSE IF ~has_related_manager("Category", "post")
       THEN response' = [Blank EXCEPT
               !.route = "category_posts", !.name = category_slug,
               !.status = "error", !.time_now = now]
       ELSE LET qs == get_filtered_posts(
                          QS(posts_of_category(category_slug)), TRUE, TRUE)
            IN  \E object_list \in order_by_pub_date(qs.ids) :
                  response' = [Blank EXCEPT
                      !.route = "category_posts", !.name = category_slug,
                      !.status = "ok",
                      !.object_list = object_list,
                      !.annotated = qs.annotated,
                      !.comment_count = qs.comment_count,
                      !.param = param, !.per_page = POSTS_LIMIT,
                      !.page = paginate(object_list, param, POSTS_LIMIT),
                      !.time_now = now]
    /\ UNCHANGED <<store, now, inflight>>

\* get_object with the first lookup not scoped to author=user
get_object_any_author(viewer, post_id) ==
    LET own == IF is_authenticated(viewer)
               THEN {p \in DOMAIN posts : p = post_id}
               ELSE {}
        arg == IF is_authenticated(viewer) THEN QNone ELSE QS(DOMAIN posts)
    IN  IF own # {} THEN own
        ELSE {p \in get_filtered_posts(arg, TRUE, FALSE).ids : p = post_id}

\* PostDetailView.get_object: the author's own row first, then the
\* filtered queryset (the first lookup leaves `posts` None when it fails)
get_object(viewer, post_id) ==
    LET own == IF is_authenticated(viewer)
               THEN {p \in DOMAIN posts : p = post_id /\ posts[p].author = viewer}
               ELSE {}
        arg == IF is_authenticated(viewer) THEN QNone ELSE QS(DOMAIN posts)
    IN  IF own # {} THEN own
        ELSE {p \in get_filtered_posts(arg, TRUE, FALSE).ids : p = post_id}

\* GET /posts/<post_id>/
PostDetailView(viewer, post_id) ==
    /\ response' = [Blank EXCEPT
           !.route = "post_detail", !.user = viewer, !.post_id = post_id,
           !.status = IF get_object(viewer, post_id) = {}
                      THEN "not_found" ELSE "ok",
           !.object_list = IF get_object(viewer, post_id) = {}
                           THEN <<>> ELSE <<post_id>>,
           !.time_now = now]
    /\ UNCHANGED <<store, now, inflight>>

-----------------------------------------------------------------------------
(* Mutation routes of blog/views.py.                                       *)

LoginRedirect(route, viewer, method) ==
    [Blank EXCEPT !.route = route, !.user = viewer, !.method = method,
                  !.status = "redirect", !.target = "login", !.time_now = now]

\* GET|POST /posts/create/
PostCreateView(viewer, method, form) ==
    IF ~is_authenticated(viewer)
    THEN /\ response' = LoginRedirect("create_post", viewer, method)
         /\ UNCHANGED <<store, now, inflight>>
    ELSE IF method = "POST" /\ post_form_valid(form)
    THEN /\ next_post_id <= MaxPosts
         /\ posts' = [p \in DOMAIN posts \cup {next_post_id} |->
                        IF p = next_post_id THEN Post(viewer, form) ELSE posts[p]]
         /\ next_post_id' = next_post_id + 1
         /\ response' = [Blank EXCEPT
                !.route = "create_post", !.user = viewer, !.method = method,
                !.post_id = next_post_id,
                !.status = "redirect", !.target = "profile",
                !.target_name = viewer, !.time_now = now]
         /\ UNCHANGED <<users, profiles, locations, inflight, categories, comments, next_comment_id, now>>
    ELSE /\ response' = [Blank EXCEPT
                !.route = "create_post", !.user = viewer, !.method = method,
                !.status = "ok", !.time_now = now]
         /\ UNCHANGED <<store, now, inflight>>

\* PostUpdateView without AuthorRequiredMixin
author_required_off(viewer, post_id) == FALSE

\* AuthorRequiredMixin.dispatch: the redirect a non-author gets
author_required(viewer, post_id) == posts[post_id].author # viewer

\* GET|POST /posts/<pk>/edit/
PostUpdateView(viewer, pk, method, form) ==
    IF ~is_authenticated(viewer)
    THEN /\ response' = LoginRedirect("edit_post", viewer, method)
         /\ UNCHANGED <<store, now, inflight>>
    ELSE IF pk \notin DOMAIN posts
    THEN /\ response' = [Blank EXCEPT
                !.route = "edit_post", !.user = viewer, !.method = method,
                !.post_id = pk, !.status = "not_found", !.time_now = now]
         /\ UNCHANGED <<store, now, inflight>>
    ELSE IF author_required(viewer, pk)
    THEN /\ response' = [Blank EXCEPT
                !.route = "edit_post", !.user = viewer, !.method = method,
                !.post_id = pk, !.status = "redirect",
                !.target = "post_detail", !.target_id = pk, !.time_now = now]
         /\ UNCHANGED <<store, now, inflight>>
    ELSE IF method = "POST" /\ post_form_valid(form)
    THEN /\ posts' = [posts EXCEPT ![pk] = Post(posts[pk].author, form)]
         /\ response' = [Blank EXCEPT
                !.route = "edit_post", !.user = viewer, !.method = method,
                !.post_id = pk, !.status = "redirect",
                !.target = "post_detail", !.target_id = pk, !.time_now = now]
         /\ UNCHANGED <<users, profiles, locations, inflight, categories, comments, next_post_id,
                        next_comment_id, now>>
    ELSE /\ response' = [Blank EXCEPT
                !.route = "edit_post", !.user = viewer, !.method = method,
                !.post_id = pk, !.status = "ok", !.time_now = now]
         /\ UNCHANGED <<store, now, inflight>>

\* delete_post: `if request.user != post.author` is the whole permission check
may_delete_post(viewer, post_id) == viewer = posts[post_id].author

\* GET|POST /posts/<post_id>/delete/
delete_post(viewer, post_id, method) ==
    IF ~is_authenticated(viewer)
    THEN /\ response' = LoginRedirect("delete_post", viewer, method)
         /\ UNCHANGED <<store, now, inflight>>
    ELSE IF post_id \notin DOMAIN posts
    THEN /\ response' = [Blank EXCEPT
                !.route = "delete_post", !.user = viewer, !.method = method,
                !.post_id = post_id, !.status = "not_found", !.time_now = now]
         /\ UNCHANGED <<store, now, inflight>>
    ELSE IF ~may_delete_post(viewer, post_id)
    THEN /\ response' = [Blank EXCEPT
                !.route = "delete_post", !.user = viewer, !.method = method,
                !.post_id = post_id, !.status = "redirect",
                !.target = "post_detail", !.target_id = post_id,
                !.time_now = now]
         /\ UNCHANGED <<store, now, inflight>>
    ELSE IF method = "POST"
    THEN /\ posts' = [p \in DOMAIN posts \ {post_id} |-> posts[p]]
         /\ comments' = cascade_comments({post_id})
         /\ response' = [Blank EXCEPT
                !.route = "delete_post", !.user = viewer, !.method = method,
                !.post_id = post_id, !.status = "redirect",
                !.target = "index", !.time_now = now]
         /\ UNCHANGED <<users, profiles, locations, inflight, categories, next_post_id, next_comment_id, now>>
    ELSE /\ response' = [Blank EXCEPT
                !.route = "delete_post", !.user = viewer, !.method = method,
                !.post_id = post_id, !.status = "ok", !.time_now = now]
         /\ UNCHANGED <<store, now, inflight>>

\* GET|POST /posts/<post_id>/comment/
add_comment(viewer, post_id, method, text) ==
    IF ~is_authenticated(viewer)
    THEN /\ response' = LoginRedirect("add_comment", viewer, method)
         /\ UNCHANGED <<store, now, inflight>>
    ELSE IF post_id \notin DOMAIN posts
    THEN /\ response' = [Blank EXCEPT
                !.route = "add_comment", !.user = viewer, !.method = method,
                !.post_id = post_id, !.status = "not_found", !.time_now = now]
         /\ UNCHANGED <<store, now, inflight>>
    ELSE IF method = "POST" /\ comment_form_valid(text)
    THEN /\ next_comment_id <= MaxComments
         /\ comments' = [c \in DOMAIN comments \cup {next_comment_id} |->
                           IF c = next_comment_id
                           THEN Comment(viewer, post_id, text)
                           ELSE comments[c]]
         /\ next_comment_id' = next_comment_id + 1
         /\ response' = [Blank EXCEPT
                !.route = "add_comment", !.user = viewer, !.method = method,
                !.post_id = post_id, !.comment_id = next_comment_id,
                !.status = "redirect", !.target = "post_detail",
                !.target_id = post_id, !.time_now = now]
         /\ UNCHANGED <<users, profiles, locations, inflight, categories, posts, next_post_id, now>>
    ELSE /\ response' = [Blank EXCEPT
                !.route = "add_comment", !.user = viewer, !.method = method,
                !.post_id = post_id, !.status = "ok", !.time_now = now]
         /\ UNCHANGED <<store, now, inflight>>

\* the comment looked up by pk alone
comment_lookup_unlinked(post_id, comment_id) ==
    /\ post_id \in DOMAIN posts
    /\ comment_id \in DOMAIN comments

\* get_object_or_404(Comment, pk=comment_id, comment_post=post)
comment_lookup(post_id, comment_id) ==
    /\ post_id \in DOMAIN posts
    /\ comment_id \in DOMAIN comments
    /\ comments[comment_id].comment_post = post_id

\* the check applied to authenticated requesters only
comment_forbidden_authenticated_only(viewer, comment_id) ==
    /\ is_authenticated(viewer)
    /\ comments[comment_id].author # viewer

\* the check letting the author of the parent post through as well
comment_forbidden_lenient(viewer, comment_id) ==
    /\ comments[comment_id].author # viewer
    /\ posts[comments[comment_id].comment_post].author # viewer

\* `if comment.author != request.user`: the redirect a non-author gets
comment_forbidden(viewer, comment_id) == comments[comment_id].author # viewer

\* GET|POST /posts/<post_id>/comment/<comment_id>/edit_comment/ and
\* .../delete_comment/ (is_delete: '/delete_comment/' in request.path)
edit_comment(viewer, post_id, comment_id, is_delete, method, text) ==
    LET route == IF is_delete THEN "delete_comment" ELSE "edit_comment"
        base  == [Blank EXCEPT
                    !.route = route, !.user = viewer, !.method = method,
                    !.post_id = post_id, !.comment_id = comment_id,
                    !.time_now = now]
    IN
    IF ~comment_lookup(post_id, comment_id)
    THEN /\ response' = [base EXCEPT !.status = "not_found"]
         /\ UNCHANGED <<store, now, inflight>>
    ELSE IF comment_forbidden(viewer, comment_id)
    THEN /\ response' = [base EXCEPT !.status = "redirect",
                !.target = "post_detail", !.target_id = post_id]
         /\ UNCHANGED <<store, now, inflight>>
    ELSE IF is_delete
    THEN IF method = "POST"
         THEN /\ comments' = [c \in DOMAIN comments \ {comment_id} |-> comments[c]]
              /\ response' = [base EXCEPT !.status = "redirect",
                     !.target = "post_detail", !.target_id = post_id]
              /\ UNCHANGED <<users, profiles, locations, inflight, categories, posts, next_post_id,
                             next_comment_id, now>>
         ELSE /\ response' = [base EXCEPT !.status = "ok"]
              /\ UNCHANGED <<store, now, inflight>>
    ELSE IF method = "POST" /\ comment_form_valid(text)
    THEN /\ comments' = [comments EXCEPT ![comment_id].text = text]
         /\ response' = [base EXCEPT !.status = "redirect",
                !.target = "post_detail", !.target_id = post_id]
         /\ UNCHANGED <<users, profiles, locations, inflight, categories, posts, next_post_id,
                        next_comment_id, now>>
    ELSE /\ response' = [base EXCEPT !.status = "ok"]
         /\ UNCHANGED <<store, now, inflight>>

\* GET|POST /profile/edit_profile/ (@login_required); the form is bound to
\* request.user and is submitted with the username it was rendered with
edit_profile(viewer, method, first_name) ==
    IF ~is_authenticated(viewer)
    THEN /\ response' = LoginRedirect("edit_profile", viewer, method)
         /\ UNCHANGED <<store, now, inflight>>
    ELSE IF method = "POST"
    THEN /\ profiles' = [profiles EXCEPT ![viewer].first_name = first_name]
         /\ response' = [Blank EXCEPT
                !.route = "edit_profile", !.user = viewer, !.method = method,
                !.status = "redirect", !.target = "profile",
                !.target_name = viewer, !.time_now = now]
         /\ UNCHANGED <<users, locations, categories, posts, comments,
                        inflight, next_post_id, next_comment_id, now>>
    ELSE /\ response' = [Blank EXCEPT
                !.route = "edit_profile", !.user = viewer, !.method = method,
                !.status = "ok", !.time_now = now]
         /\ UNCHANGED <<store, now, inflight>>

-----------------------------------------------------------------------------
(* The two edit handlers as the steps a request takes against the shared   *)
(* store: the queries that load the row and bind the form, then save().    *)

\* a save() that only inserts: the row already stored is left as it is
save_row_insert_only(table, pk, instance) ==
    [k \in DOMAIN table \cup {pk} |->
        IF k \in DOMAIN table THEN table[k] ELSE instance]

\* ModelForm.save() -> Model.save() of a loaded instance: UPDATE of every
\* column of the row with that pk, INSERT when no row has that pk
save_row(table, pk, instance) ==
    [k \in DOMAIN table \cup {pk} |-> IF k = pk THEN instance ELSE table[k]]

\* the request slot after its handler returned
Done(route, viewer, pk, post_id, instance, status) ==
    [ pc |-> "done", route |-> route, user |-> viewer, pk |-> pk,
      post_id |-> post_id, instance |-> instance, status |-> status ]

\* POST .../edit_comment/ up to form.is_valid(): both lookups, the author
\* check, and the form bound onto the loaded comment
edit_comment_load(r, viewer, post_id, comment_id, text) ==
    LET base == [Blank EXCEPT
                    !.route = "edit_comment", !.user = viewer,
                    !.method = "POST", !.post_id = post_id,
                    !.comment_id = comment_id, !.request = r,
                    !.time_now = now]
        done(status) ==
            Done("edit_comment", viewer, comment_id, post_id, <<>>, status)
    IN
    /\ inflight[r].pc = "idle"
    /\ IF ~comment_lookup(post_id, comment_id)
       THEN /\ response' = [base EXCEPT !.status = "not_found"]
            /\ inflight' = [inflight EXCEPT ![r] = done("not_found")]
       ELSE IF comment_forbidden(viewer, comment_id)
       THEN /\ response' = [base EXCEPT !.status = "redirect",
                   !.target = "post_detail", !.target_id = post_id]
            /\ inflight' = [inflight EXCEPT ![r] = done("redirect")]
       ELSE IF comment_form_valid(text)
       THEN /\ inflight' = [inflight EXCEPT ![r] =
                   [ pc |-> "loaded", route |-> "edit_comment",
                     user |-> viewer, pk |-> comment_id, post_id |-> post_id,
                     instance |-> [comments[comment_id] EXCEPT !.text = text],
                     status |-> "none" ]]
            /\ UNCHANGED response
       ELSE /\ response' = [base EXCEPT !.status = "ok"]
            /\ inflight' = [inflight EXCEPT ![r] = done("ok")]
    /\ UNCHANGED <<store, now>>

\* form.save() and the redirect of POST .../edit_comment/
edit_comment_save(r) ==
    LET req  == inflight[r]
        base == [Blank EXCEPT
                    !.route = "edit_comment", !.user = req.user,
                    !.method = "POST", !.post_id = req.post_id,
                    !.comment_id = req.pk, !.request = r, !.time_now = now]
    IN
    /\ req.pc = "loaded"
    /\ req.route = "edit_comment"
    /\ IF /\ req.instance.comment_post \in DOMAIN posts
          /\ req.instance.author \in users
       THEN /\ comments' = save_row(comments, req.pk, req.instance)
            /\ response' = [base EXCEPT !.status = "redirect",
                   !.target = "post_detail", !.target_id = req.post_id]
            /\ inflight' = [inflight EXCEPT ![r] =
                   Done("edit_comment", req.user, req.pk, req.post_id,
                        req.instance, "redirect")]
       ELSE /\ comments' = comments
            /\ response' = [base EXCEPT !.status = "error"]
            /\ inflight' = [inflight EXCEPT ![r] =
                   Done("edit_comment", req.user, req.pk, req.post_id,
                        req.instance, "error")]
    /\ UNCHANGED <<users, profiles, categories, locations, posts,
                   next_post_id, next_comment_id, now>>

\* POST .../delete_comment/ up to comment.delete(): both lookups and the
\* author check
edit_comment_delete_load(r, viewer, post_id, comment_id) ==
    LET base == [Blank EXCEPT
                    !.route = "delete_comment", !.user = viewer,
                    !.method = "POST", !.post_id = post_id,
                    !.comment_id = comment_id, !.request = r,
                    !.time_now = now]
        done(status) ==
            Done("delete_comment", viewer, comment_id, post_id, <<>>, status)
    IN
    /\ inflight[r].pc = "idle"
    /\ IF ~comment_lookup(post_id, comment_id)
       THEN /\ response' = [base EXCEPT !.status = "not_found"]
            /\ inflight' = [inflight EXCEPT ![r] = done("not_found")]
       ELSE IF comment_forbidden(viewer, comment_id)
       THEN /\ response' = [base EXCEPT !.status = "redirect",
                   !.target = "post_detail", !.target_id = post_id]
            /\ inflight' = [inflight EXCEPT ![r] = done("redirect")]
       ELSE /\ inflight' = [inflight EXCEPT ![r] =
                   [ pc |-> "loaded", route |-> "delete_comment",
                     user |-> viewer, pk |-> comment_id, post_id |-> post_id,
                     instance |-> comments[comment_id], status |-> "none" ]]
            /\ UNCHANGED response
    /\ UNCHANGED <<store, now>>

\* comment.delete() and the redirect of POST .../delete_comment/: DELETE of
\* the row with that pk, which may already be gone
edit_comment_delete(r) ==
    LET req == inflight[r]
    IN
    /\ req.pc = "loaded"
    /\ req.route = "delete_comment"
    /\ comments' = [c \in DOMAIN comments \ {req.pk} |-> comments[c]]
    /\ response' = [Blank EXCEPT
           !.route = "delete_comment", !.user = req.user, !.method = "POST",
           !.post_id = req.post_id, !.comment_id = req.pk, !.request = r,
           !.status = "redirect", !.target = "post_detail",
           !.target_id = req.post_id, !.time_now = now]
    /\ inflight' = [inflight EXCEPT ![r] =
           Done("delete_comment", req.user, req.pk, req.post_id,
                req.instance, "redirect")]
    /\ UNCHANGED <<users, profiles, categories, locations, posts,
                   next_post_id, next_comment_id, now>>

\* POST /posts/<pk>/edit/ up to form.is_valid(): the login and author
\* checks of dispatch, get_object(), and the form bound onto the loaded post
PostUpdateView_load(r, viewer, pk, form) ==
    LET base == [Blank EXCEPT
                    !.route = "edit_post", !.user = viewer, !.method = "POST",
                    !.post_id = pk, !.request = r, !.time_now = now]
        done(status) == Done("edit_post", viewer, pk, pk, <<>>, status)
    IN
    /\ inflight[r].pc = "idle"
    /\ IF ~is_authenticated(viewer)
       THEN /\ response' = [LoginRedirect("edit_post", viewer, "POST")
                               EXCEPT !.request = r]
            /\ inflight' = [inflight EXCEPT ![r] = done("redirect")]
       ELSE IF pk \notin DOMAIN posts
       THEN /\ response' = [base EXCEPT !.status = "not_found"]
            /\ inflight' = [inflight EXCEPT ![r] = done("not_found")]
       ELSE IF author_required(viewer, pk)
       THEN /\ response' = [base EXCEPT !.status = "redirect",
                   !.target = "post_detail", !.target_id = pk]
            /\ inflight' = [inflight EXCEPT ![r] = done("redirect")]
       ELSE IF post_form_valid(form)
       THEN /\ inflight' = [inflight EXCEPT ![r] =
                   [ pc |-> "loaded", route |-> "edit_post", user |-> viewer,
                     pk |-> pk, post_id |-> pk,
                     instance |-> Post(posts[pk].author, form),
                     status |-> "none" ]]
            /\ UNCHANGED response
       ELSE /\ response' = [base EXCEPT !.status = "ok"]
            /\ inflight' = [inflight EXCEPT ![r] = done("ok")]
    /\ UNCHANGED <<store, now>>

\* form.save() and the redirect of POST /posts/<pk>/edit/
PostUpdateView_save(r) ==
    LET req  == inflight[r]
        base == [Blank EXCEPT
                    !.route = "edit_post", !.user = req.user,
                    !.method = "POST", !.post_id = req.pk, !.request = r,
                    !.time_now = now]
    IN
    /\ req.pc = "loaded"
    /\ req.route = "edit_post"
    /\ IF /\ req.instance.author \in users
          /\ req.instance.category \in DOMAIN categories \cup {NullCategory}
          /\ req.instance.location \in DOMAIN locations \cup {NullLocation}
       THEN /\ posts' = save_row(posts, req.pk, req.instance)
            /\ response' = [base EXCEPT !.status = "redirect",
                   !.target = "post_detail", !.target_id = req.pk]
            /\ inflight' = [inflight EXCEPT ![r] =
                   Done("edit_post", req.user, req.pk, req.pk,
                        req.instance, "redirect")]
       ELSE /\ posts' = posts
            /\ response' = [base EXCEPT !.status = "error"]
            /\ inflight' = [inflight EXCEPT ![r] =
                   Done("edit_post", req.user, req.pk, req.pk,
                        req.instance, "error")]
    /\ UNCHANGED <<users, profiles, categories, locations, comments,
                   next_post_id, next_comment_id, now>>

-----------------------------------------------------------------------------
(* The admin site (blog/admin.py) on the rows the routes cannot reach.     *)

\* Post.category declared on_delete = CASCADE
admin_delete_category_cascade(slug) ==
    /\ slug \in DOMAIN categories
    /\ categories' = [c \in DOMAIN categories \ {slug} |-> categories[c]]
    /\ posts' = [p \in DOMAIN posts \ posts_of_category(slug) |-> posts[p]]
    /\ comments' = cascade_comments(posts_of_category(slug))
    /\ response' = [Blank EXCEPT !.route = "admin", !.name = slug,
                                 !.status = "ok", !.time_now = now]
    /\ UNCHANGED <<users, profiles, locations, inflight, next_post_id,
                   next_comment_id, now>>

\* CategoryAdmin delete: Post.category is on_delete = SET_NULL
admin_delete_category(slug) ==
    /\ slug \in DOMAIN categories
    /\ categories' = [c \in DOMAIN categories \ {slug} |-> categories[c]]
    /\ posts' = [p \in DOMAIN posts |->
                   IF posts[p].category = slug
                   THEN [posts[p] EXCEPT !.category = NullCategory]
                   ELSE posts[p]]
    /\ response' = [Blank EXCEPT !.route = "admin", !.name = slug,
                                 !.status = "ok", !.time_now = now]
    /\ UNCHANGED <<users, profiles, locations, inflight, comments, next_post_id, next_comment_id, now>>

\* CommentAdmin change form: is_published is an editable field
admin_change_comment(comment_id, is_published) ==
    /\ comment_id \in DOMAIN comments
    /\ comments[comment_id].is_published # is_published
    /\ comments' = [comments EXCEPT ![comment_id].is_published = is_published]
    /\ response' = [Blank EXCEPT !.route = "admin", !.comment_id = comment_id,
                                 !.status = "ok", !.time_now = now]
    /\ UNCHANGED <<users, profiles, locations, inflight, categories, posts, next_post_id, next_comment_id, now>>

\* Post.location declared on_delete = DO_NOTHING without a constraint
admin_delete_location_keep_reference(location) ==
    /\ location \in DOMAIN locations
    /\ locations' = [l \in DOMAIN locations \ {location} |-> locations[l]]
    /\ response' = [Blank EXCEPT !.route = "admin", !.name = location,
                                 !.status = "ok", !.time_now = now]
    /\ UNCHANGED <<users, profiles, categories, posts, comments, inflight,
                   next_post_id, next_comment_id, now>>

\* LocationAdmin delete: Post.location is on_delete = SET_NULL
admin_delete_location(location) ==
    /\ location \in DOMAIN locations
    /\ locations' = [l \in DOMAIN locations \ {location} |-> locations[l]]
    /\ posts' = [p \in DOMAIN posts |->
                   IF posts[p].location = location
                   THEN [posts[p] EXCEPT !.location = NullLocation]
                   ELSE posts[p]]
    /\ response' = [Blank EXCEPT !.route = "admin", !.name = location,
                                 !.status = "ok", !.time_now = now]
    /\ UNCHANGED <<users, profiles, categories, comments, inflight,
                   next_post_id, next_comment_id, now>>

\* deleting a user: Post.author, Comment.author and Comment.comment_post are
\* on_delete = CASCADE
admin_delete_user(user) ==
    /\ user \in users
    /\ users' = users \ {user}
    /\ profiles' = [u \in users \ {user} |-> profiles[u]]
    /\ posts' = [p \in DOMAIN posts \ posts_of_author(user) |-> posts[p]]
    /\ comments' =
          [c \in {d \in DOMAIN cascade_comments(posts_of_author(user)) :
                     comments[d].author # user} |-> comments[c]]
    /\ response' = [Blank EXCEPT !.route = "admin", !.name = user,
                                 !.status = "ok", !.time_now = now]
    /\ UNCHANGED <<categories, locations, inflight, next_post_id,
                   next_comment_id, now>>

-----------------------------------------------------------------------------
(* Direct calls of the two service functions.                              *)

\* paginate(queryset, request, items_per_page) over a list of n items
call_paginate(n, items_per_page, param) ==
    LET object_list == [i \in 1..n |-> i]
    IN  /\ response' = [Blank EXCEPT
               !.route = "paginate", !.status = "ok",
               !.object_list = object_list,
               !.param = param, !.per_page = items_per_page,
               !.page = paginate(object_list, param, items_per_page),
               !.time_now = now]
        /\ UNCHANGED <<store, now, inflight>>

\* get_filtered_posts(apply_filter=..., apply_annotation=...) over all posts
call_get_filtered_posts(apply_filter, apply_annotation) ==
    LET qs == get_filtered_posts(QNone, apply_filter, apply_annotation)
    IN  /\ \E object_list \in order_by_pub_date(qs.ids) :
              response' = [Blank EXCEPT
                  !.route = "get_filtered_posts", !.status = "ok",
                  !.name = IF apply_filter THEN "apply_filter" ELSE "",
                  !.object_list = object_list,
                  !.annotated = qs.annotated,
                  !.comment_count = qs.comment_count,
                  !.time_now = now]
        /\ UNCHANGED <<store, now, inflight>>

-----------------------------------------------------------------------------
(* Specifications.                                                         *)

ReqPages == {NoPageParam, GivenPage(<<"2">>)}

Authors == {"u1", "u2"}

\* Visibility: posts are published, scheduled, hidden and lose their
\* category; every viewer reads the listings and the detail page.
NextView ==
    \/ \E u \in Authors, form \in PostForms : PostCreateView(u, "POST", form)
    \/ \E slug \in CategorySlugs : admin_delete_category(slug)
    \/ Tick
    \/ \E param \in ReqPages : index(param)
    \/ \E viewer \in Viewers, username \in UserNames \cup {"nobody"} :
          profile(viewer, username, NoPageParam)
    \/ \E slug \in CategorySlugs : category_posts(slug, NoPageParam)
    \/ \E viewer \in Viewers, post_id \in PostIds : PostDetailView(viewer, post_id)

Spec == Init /\ [][NextView]_vars

\* Authorization: one author's posts, two commenters, and every viewer
\* sending read and submit requests to the mutation routes.
AuthForms ==
    { [pub_date |-> 0, is_published |-> TRUE, category |-> "c1"],
      [pub_date |-> 1, is_published |-> FALSE, category |-> "c2"],
      [pub_date |-> 0, is_published |-> TRUE, category |-> NullCategory] }

NextAuth ==
    \/ \E form \in AuthForms : PostCreateView("u1", "POST", form)
    \/ \E u \in Authors, post_id \in PostIds :
          add_comment(u, post_id, "POST", "t1")
    \/ \E viewer \in Viewers, pk \in PostIds, method \in Methods,
          form \in AuthForms : PostUpdateView(viewer, pk, method, form)
    \/ \E viewer \in Viewers, post_id \in PostIds, method \in Methods :
          delete_post(viewer, post_id, method)
    \/ \E viewer \in Viewers, post_id \in PostIds, comment_id \in CommentIds,
          is_delete \in BOOLEAN, method \in Methods,
          text \in {"t2", EmptyText} :
          edit_comment(viewer, post_id, comment_id, is_delete, method, text)

SpecAuth == Init /\ [][NextAuth]_vars

\* Comment counts: posts in a published and in an unpublished category,
\* comments added and hidden, and the annotated queryset read back.
CountForms ==
    { [pub_date |-> 0, is_published |-> TRUE, category |-> "c1"],
      [pub_date |-> 0, is_published |-> TRUE, category |-> "c2"] }

NextCount ==
    \/ \E form \in CountForms : PostCreateView("u1", "POST", form)
    \/ \E u \in Authors, post_id \in PostIds :
          add_comment(u, post_id, "POST", "t1")
    \/ \E comment_id \in CommentIds, flag \in BOOLEAN :
          admin_change_comment(comment_id, flag)
    \/ index(NoPageParam)
    \/ \E apply_filter \in BOOLEAN :
          call_get_filtered_posts(apply_filter, TRUE)

SpecCount == Init /\ [][NextCount]_vars

\* Deletion: posts with and without a location, comments of both authors,
\* and the admin site deleting users, categories and locations.
CascadeForms ==
    { [pub_date |-> 0, is_published |-> TRUE, category |-> "c1",
       location |-> "l1"],
      [pub_date |-> 0, is_published |-> TRUE, category |-> "c2"] }

NextCascade ==
    \/ \E u \in Authors, form \in CascadeForms : PostCreateView(u, "POST", form)
    \/ \E u \in Authors, post_id \in PostIds :
          add_comment(u, post_id, "POST", "t1")
    \/ \E u \in Authors : admin_delete_user(u)
    \/ \E slug \in CategorySlugs : admin_delete_category(slug)
    \/ \E location \in LocationIds : admin_delete_location(location)

SpecCascade == Init /\ [][NextCascade]_vars

\* Submissions: read and submit requests of an author, a second commenter
\* and an anonymous requester to the routes that add rows, with valid forms,
\* an invalid form and a form carrying an `author` key, and the anonymous
\* requester on every other route that requires a login.
SubmitForms ==
    { [pub_date |-> 0, is_published |-> TRUE, category |-> "c1"],
      [pub_date |-> 0, is_published |-> FALSE, category |-> "c1",
       author |-> "u2"],
      [pub_date |-> 0, is_published |-> TRUE, category |-> NullCategory] }

Submitters == {"u1", Anonymous}

Commenters == {"u1", "u2", Anonymous}

NextSubmit ==
    \/ \E viewer \in Submitters, method \in Methods, form \in SubmitForms :
          PostCreateView(viewer, method, form)
    \/ \E pk \in PostIds, method \in Methods, form \in SubmitForms :
          PostUpdateView(Anonymous, pk, method, form)
    \/ \E post_id \in PostIds, method \in Methods :
          delete_post(Anonymous, post_id, method)
    \/ \E viewer \in Commenters, post_id \in PostIds, method \in Methods,
          text \in {"t1", EmptyText} :
          add_comment(viewer, post_id, method, text)
    \/ \E post_id \in PostIds, comment_id \in CommentIds,
          is_delete \in BOOLEAN, method \in Methods :
          edit_comment(Anonymous, post_id, comment_id, is_delete, method, "t2")
    \/ \E viewer \in Submitters, method \in Methods, first_name \in FirstNames :
          edit_profile(viewer, method, first_name)

SpecSubmit == Init /\ [][NextSubmit]_vars

\* Concurrency: two requests in flight, each an edit submission whose load
\* and save interleave with the other's, on posts and comments of u1.
ConcurrentForms ==
    { [pub_date |-> 0, is_published |-> TRUE, category |-> "c1"],
      [pub_date |-> 1, is_published |-> TRUE, category |-> "c1",
       location |-> "l1"],
      [pub_date |-> 1, is_published |-> FALSE, category |-> "c2"] }

NextConcurrent ==
    \/ PostCreateView("u1", "POST",
                      [pub_date |-> 0, is_published |-> TRUE, category |-> "c1"])
    \/ \E post_id \in PostIds : add_comment("u1", post_id, "POST", "t1")
    \/ \E r \in Requests, viewer \in Authors, post_id \in PostIds,
          comment_id \in CommentIds, text \in {"t2", "t3", EmptyText} :
          edit_comment_load(r, viewer, post_id, comment_id, text)
    \/ \E r \in Requests : edit_comment_save(r)
    \/ \E r \in Requests, viewer \in Authors, pk \in PostIds,
          form \in ConcurrentForms : PostUpdateView_load(r, viewer, pk, form)
    \/ \E r \in Requests : PostUpdateView_save(r)

SpecConcurrent == Init /\ [][NextConcurrent]_vars

\* Delete against edit: two requests in flight on the comments of u1, each
\* an edit submission or a delete submission, their steps interleaved.
NextRace ==
    \/ PostCreateView("u1", "POST",
                      [pub_date |-> 0, is_published |-> TRUE, category |-> "c1"])
    \/ \E post_id \in PostIds : add_comment("u1", post_id, "POST", "t1")
    \/ \E r \in Requests, viewer \in Authors, post_id \in PostIds,
          comment_id \in CommentIds :
          edit_comment_load(r, viewer, post_id, comment_id, "t2")
    \/ \E r \in Requests : edit_comment_save(r)
    \/ \E r \in Requests, viewer \in Authors, post_id \in PostIds,
          comment_id \in CommentIds :
          edit_comment_delete_load(r, viewer, post_id, comment_id)
    \/ \E r \in Requests : edit_comment_delete(r)

SpecRace == Init /\ [][NextRace]_vars

\* Ownership: two authors creating, editing, commenting and deleting
\* through the routes, with a form that carries an `author` key.
OwnerForms ==
    { [pub_date |-> 0, is_published |-> TRUE, category |-> "c1"],
      [pub_date |-> 1, is_published |-> TRUE, category |-> "c1",
       author |-> "u3"] }

NextOwner ==
    \/ \E viewer \in Authors, form \in OwnerForms :
          PostCreateView(viewer, "POST", form)
    \/ \E viewer \in Authors, pk \in PostIds, form \in OwnerForms :
          PostUpdateView(viewer, pk, "POST", form)
    \/ \E viewer \in Authors, post_id \in PostIds :
          delete_post(viewer, post_id, "POST")
    \/ \E viewer \in Authors, post_id \in PostIds :
          add_comment(viewer, post_id, "POST", "t1")
    \/ \E viewer \in Authors, post_id \in PostIds, comment_id \in CommentIds,
          is_delete \in BOOLEAN :
          edit_comment(viewer, post_id, comment_id, is_delete, "POST", "t2")

SpecOwner == Init /\ [][NextOwner]_vars

\* Integrity: every operation that creates, edits or deletes a post or a
\* comment, and the admin site deleting users, categories and locations.
IntegrityForms ==
    { [pub_date |-> 0, is_published |-> TRUE, category |-> "c1",
       location |-> "l1"],
      [pub_date |-> 0, is_published |-> TRUE, category |-> "c1"] }

NextIntegrity ==
    \/ \E viewer \in Authors, form \in IntegrityForms :
          PostCreateView(viewer, "POST", form)
    \/ \E viewer \in Authors, pk \in PostIds, form \in IntegrityForms :
          PostUpdateView(viewer, pk, "POST", form)
    \/ \E viewer \in Authors, post_id \in PostIds :
          delete_post(viewer, post_id, "POST")
    \/ \E viewer \in Authors, post_id \in PostIds :
          add_comment(viewer, post_id, "POST", "t1")
    \/ \E viewer \in Authors, post_id \in PostIds, comment_id \in CommentIds,
          is_delete \in BOOLEAN :
          edit_comment(viewer, post_id, comment_id, is_delete, "POST", "t2")
    \/ \E u \in Authors : admin_delete_user(u)
    \/ admin_delete_category("c1")
    \/ \E location \in LocationIds : admin_delete_location(location)

SpecIntegrity == Init /\ [][NextIntegrity]_vars

\* Pagination: every list length, page size and raw `page` value.
RawPages == {<<>>} \cup {<<a>> : a \in PageChars}
                   \cup {<<a, b>> : a \in PageChars, b \in PageChars}

PageParams == {NoPageParam} \cup {GivenPage(s) : s \in RawPages}

NextPaginate ==
    \E n \in 0..MaxItems, items_per_page \in 1..MaxPerPage,
       param \in PageParams : call_paginate(n, items_per_page, param)

SpecPaginate == Init /\ [][NextPaginate]_vars

-----------------------------------------------------------------------------
(* Properties.                                                             *)

Listed == {response.object_list[i] : i \in DOMAIN response.object_list}

CategoryPublished(p) ==
    /\ posts[p].category \in DOMAIN categories
    /\ categories[posts[p].category].is_published

\* the predicate of the specification text: no category passes vacuously
VisibleOrUncategorised(p, t) ==
    /\ posts[p].pub_date <= t
    /\ posts[p].is_published
    /\ (posts[p].category = NullCategory \/ CategoryPublished(p))

\* the predicate with the category required
Visible(p, t) ==
    /\ posts[p].pub_date <= t
    /\ posts[p].is_published
    /\ posts[p].category # NullCategory
    /\ CategoryPublished(p)

Min(a, b) == IF a <= b THEN a ELSE b

DigitChar(d) ==
    CASE d = 0 -> "0" [] d = 1 -> "1" [] d = 2 -> "2" [] d = 3 -> "3"
      [] d = 4 -> "4" [] d = 5 -> "5" [] d = 6 -> "6" [] d = 7 -> "7"
      [] d = 8 -> "8" [] OTHER -> "9"

\* the decimal text of a page number below 100
Format(k) ==
    IF k < 10 THEN <<DigitChar(k)>>
    ELSE <<DigitChar(k \div 10), DigitChar(k % 10)>>

\* C1 (as stated): a stored post is in the index listing exactly when it is
\* not future-dated, is published, and has no category or a published one.
C1_IndexListingAsStated ==
    response.route = "index" =>
        \A p \in DOMAIN posts :
            p \in Listed <=> VisibleOrUncategorised(p, response.time_now)

\* C1 (amended): a stored post is in the index listing exactly when it is
\* not future-dated, is published, and has a category that is published; a
\* post without a category is never listed.
C1_IndexListing ==
    response.route = "index" =>
        /\ Listed \subseteq DOMAIN posts
        /\ \A p \in DOMAIN posts :
              p \in Listed <=> Visible(p, response.time_now)

C1_Witness ==
    /\ response.route = "index"
    /\ \E p, q \in DOMAIN posts :
          /\ p \in Listed
          /\ q \notin Listed
          /\ posts[q].category = NullCategory
          /\ posts[q].is_published
          /\ posts[q].pub_date <= response.time_now

C3_StaffDeletesAnyPost ==
    ( /\ response.route = "delete_post"
      /\ response.method = "POST"
      /\ response.user \in users
      /\ response.user \in StaffUsers )
    => response.post_id \notin DOMAIN posts

\* C4: a request to the edit or delete route of an existing post by an
\* authenticated non-staff user who is not its author is redirected to the
\* post's detail view and leaves every post and comment as it was.
C4_NonAuthorPostUnchanged ==
    [][ ( /\ response'.route \in {"edit_post", "delete_post"}
          /\ response'.user \in users \ StaffUsers
          /\ response'.post_id \in DOMAIN posts
          /\ posts[response'.post_id].author # response'.user )
        => ( /\ response'.status = "redirect"
             /\ response'.target = "post_detail"
             /\ response'.target_id = response'.post_id
             /\ posts' = posts
             /\ comments' = comments ) ]_vars

C4_Witness ==
    /\ response.route = "edit_post"
    /\ response.method = "POST"
    /\ response.status = "redirect"
    /\ response.target = "post_detail"
    /\ response.user \in users \ StaffUsers
    /\ response.post_id \in DOMAIN posts
    /\ posts[response.post_id].author # response.user

\* C5: a request to the comment edit or delete route for a comment linked to
\* the post in the path, by anyone who is not the comment's author, is
\* redirected to the post's detail view and leaves every comment as it was.
C5_NonAuthorCommentUnchanged ==
    [][ ( /\ response'.route \in {"edit_comment", "delete_comment"}
          /\ response'.post_id \in DOMAIN posts
          /\ response'.comment_id \in DOMAIN comments
          /\ comments[response'.comment_id].comment_post = response'.post_id
          /\ comments[response'.comment_id].author # response'.user )
        => ( /\ response'.status = "redirect"
             /\ response'.target = "post_detail"
             /\ response'.target_id = response'.post_id
             /\ comments' = comments ) ]_vars

C5_Witness ==
    /\ response.route = "delete_comment"
    /\ response.method = "POST"
    /\ response.status = "redirect"
    /\ response.post_id \in DOMAIN posts
    /\ response.comment_id \in DOMAIN comments
    /\ comments[response.comment_id].comment_post = response.post_id
    /\ posts[response.post_id].author = response.user
    /\ comments[response.comment_id].author # response.user

\* C6: the profile listing of a stored user holds all of that user's posts
\* when the viewer is that user, and for any other viewer exactly those of
\* the user's posts that pass the visibility filter.
C6_ProfileListing ==
    (response.route = "profile" /\ response.name \in users) =>
        /\ response.status = "ok"
        /\ Listed =
             IF response.user = response.name
             THEN {p \in DOMAIN posts : posts[p].author = response.name}
             ELSE {p \in DOMAIN posts :
                      /\ posts[p].author = response.name
                      /\ VisibleOrUncategorised(p, response.time_now)}

\* C7: the profile route of a stored user lists only that user's posts and
\* the category route of a published category lists only that category's
\* posts; with no such posts the listing is empty.
C7_ListingScope ==
    /\ (response.route = "profile" /\ response.name \in users) =>
          /\ response.status = "ok"
          /\ \A p \in Listed : posts[p].author = response.name
    /\ ( /\ response.route = "category_posts"
         /\ response.name \in DOMAIN categories
         /\ categories[response.name].is_published ) =>
          /\ response.status = "ok"
          /\ \A p \in Listed : posts[p].category = response.name

\* C8: with page size S over N items there are max(1, ceil(N/S)) pages;
\* page k holds the min(S, N-(k-1)S) items that follow page k-1, every item
\* is on exactly one page, has_previous iff k > 1, has_next iff k is not
\* the last page, and a valid requested number is the page returned.
C8_Pages ==
    response.route = "paginate" =>
        LET list  == response.object_list
            N     == Len(list)
            S     == response.per_page
            pages == IF N = 0 THEN 1 ELSE (N + S - 1) \div S
            pg(k) == paginate(list, GivenPage(Format(k)), S)
        IN  /\ response.page.num_pages = pages
            /\ \A k \in 1..pages :
                  /\ pg(k).number = k
                  /\ Len(pg(k).object_list) = Min(S, N - (k - 1) * S)
                  /\ \A i \in 1..Len(pg(k).object_list) :
                        pg(k).object_list[i] = list[(k - 1) * S + i]
                  /\ pg(k).has_previous = (k > 1)
                  /\ pg(k).has_next = (k < pages)
                  /\ response.param = GivenPage(Format(k)) => response.page = pg(k)
            /\ \A j \in 1..N :
                  Cardinality({k \in 1..pages :
                      \E i \in 1..Len(pg(k).object_list) :
                          pg(k).object_list[i] = list[j]}) = 1
            /\ N = 0 => response.page.object_list = <<>>

C8_Witness ==
    /\ response.route = "paginate"
    /\ response.per_page = 2
    /\ Len(response.object_list) = 3
    /\ response.page.number = 2
    /\ Len(response.page.object_list) = 1
    /\ response.page.has_previous
    /\ ~response.page.has_next

\* C9 (as stated): a missing or non-integer page value gives the first
\* page, a number below 1 gives the first page, a number above the page
\* count gives the last page.
C9_BoundaryAsStated ==
    response.route = "paginate" =>
        /\ ~IsInteger(response.param) => response.page.number = 1
        /\ (IsInteger(response.param) /\ IntValue(response.param) < 1)
              => response.page.number = 1
        /\ ( /\ IsInteger(response.param)
             /\ IntValue(response.param) > response.page.num_pages )
              => response.page.number = response.page.num_pages

\* C9 (amended): paginate always returns a page numbered 1..num_pages; a
\* missing or non-integer value gives the first page, and every integer
\* out of range, below 1 as well as above the page count, gives the last.
C9_Boundary ==
    response.route = "paginate" =>
        /\ response.page.number \in 1..response.page.num_pages
        /\ ~IsInteger(response.param) => response.page.number = 1
        /\ (IsInteger(response.param) /\ IntValue(response.param) < 1)
              => response.page.number = response.page.num_pages
        /\ ( /\ IsInteger(response.param)
             /\ IntValue(response.param) > response.page.num_pages )
              => response.page.number = response.page.num_pages

C9_Witness ==
    /\ response.route = "paginate"
    /\ IsInteger(response.param)
    /\ IntValue(response.param) < 1
    /\ response.page.num_pages >= 2
    /\ response.page.number = response.page.num_pages

\* C10: every post of an annotated queryset carries the number of all
\* comments whose comment_post it is, unpublished ones included, with the
\* visibility filter applied or not.
C10_CommentCount ==
    response.annotated =>
        /\ DOMAIN response.comment_count = Listed
        /\ \A p \in Listed :
              response.comment_count[p] =
                  Cardinality({c \in DOMAIN comments :
                                  comments[c].comment_post = p})

C10_Witness ==
    /\ response.route = "index"
    /\ response.annotated
    /\ \E p \in Listed :
          /\ response.comment_count[p] = 2
          /\ \E c \in DOMAIN comments :
                comments[c].comment_post = p /\ ~comments[c].is_published

\* C11: deleting a user removes exactly the posts that user authored, the
\* comments that user authored and the comments of any author on a removed
\* post; every other post and comment stays as it was.
C11_UserDeleteCascades ==
    [][ \A u \in UserNames :
          (u \in users /\ admin_delete_user(u)) =>
            /\ DOMAIN posts' = {p \in DOMAIN posts : posts[p].author # u}
            /\ \A p \in DOMAIN posts' : posts'[p] = posts[p]
            /\ DOMAIN comments' =
                  {c \in DOMAIN comments :
                      /\ comments[c].author # u
                      /\ posts[comments[c].comment_post].author # u}
            /\ \A c \in DOMAIN comments' : comments'[c] = comments[c] ]_vars

C11_Witness ==
    /\ response.route = "admin"
    /\ response.name \in UserNames \ users
    /\ next_post_id = 3
    /\ Cardinality(DOMAIN posts) = 1
    /\ next_comment_id = 3
    /\ Cardinality(DOMAIN comments) = 1
    /\ \A c \in DOMAIN comments :
          comments[c].author \in users /\ comments[c].comment_post \in DOMAIN posts

\* C12: deleting a category or a location deletes no post and no comment;
\* each post that referenced it keeps its other fields and has that
\* reference set to null, and every other post is unchanged.
C12_DeleteSetsNull ==
    [][ /\ \A slug \in CategorySlugs :
              admin_delete_category(slug) =>
                /\ comments' = comments
                /\ DOMAIN posts' = DOMAIN posts
                /\ \A p \in DOMAIN posts :
                      posts'[p] = IF posts[p].category = slug
                                  THEN [posts[p] EXCEPT !.category = NullCategory]
                                  ELSE posts[p]
        /\ \A location \in LocationIds :
              admin_delete_location(location) =>
                /\ comments' = comments
                /\ DOMAIN posts' = DOMAIN posts
                /\ \A p \in DOMAIN posts :
                      posts'[p] = IF posts[p].location = location
                                  THEN [posts[p] EXCEPT !.location = NullLocation]
                                  ELSE posts[p] ]_vars

C12_Witness ==
    /\ response.route = "admin"
    /\ response.name \in CategorySlugs \ DOMAIN categories
    /\ \E p, q \in DOMAIN posts :
          /\ posts[p].category = NullCategory
          /\ posts[p].location \in DOMAIN locations
          /\ posts[q].category \in DOMAIN categories
    /\ DOMAIN comments # {}

\* C13: every listing route (index, category of a published category,
\* profile of a stored user, for its owner or anyone else) answers with a
\* listing ordered by pub_date descending over the whole paginated sequence,
\* the page being the slice of that sequence.
C13_ListingOrdered ==
    LET listing_requested ==
            \/ response.route = "index"
            \/ response.route = "profile" /\ response.name \in users
            \/ /\ response.route = "category_posts"
               /\ response.name \in DOMAIN categories
               /\ categories[response.name].is_published
        list == response.object_list
    IN  listing_requested =>
            /\ response.status = "ok"
            /\ \A i, j \in DOMAIN list :
                  i < j => posts[list[i]].pub_date >= posts[list[j]].pub_date
            /\ response.page = paginate(list, response.param, POSTS_LIMIT)

\* C19: a published post of a published category is absent from the index,
\* its category listing and its author's profile as seen by others, and
\* not found on the detail route for non-authors, on every read made while
\* now < pub_date, and present on every such read once now >= pub_date.
C19_ScheduledPublication ==
    \A p \in DOMAIN posts :
        (posts[p].is_published /\ CategoryPublished(p)) =>
            LET due == posts[p].pub_date <= response.time_now
            IN  /\ response.route = "index" => (p \in Listed <=> due)
                /\ ( /\ response.route = "category_posts"
                     /\ response.name = posts[p].category ) =>
                       /\ response.status = "ok"
                       /\ p \in Listed <=> due
                /\ ( /\ response.route = "profile"
                     /\ response.name = posts[p].author
                     /\ response.user # posts[p].author ) =>
                       /\ response.status = "ok"
                       /\ p \in Listed <=> due
                /\ ( /\ response.route = "post_detail"
                     /\ response.post_id = p
                     /\ response.user # posts[p].author ) =>
                       (response.status = "ok" <=> due)

\* C14: a valid submission to the create route by an authenticated user
\* adds exactly one post, whose author is that user whatever the form data
\* carries; any other request to the route adds none.
C14_CreatedPostAuthor ==
    [][ response'.route = "create_post" =>
          LET viewer == response'.user
              method == response'.method
          IN  \A form \in SubmitForms :
                PostCreateView(viewer, method, form) =>
                  IF /\ is_authenticated(viewer)
                     /\ method = "POST"
                     /\ post_form_valid(form)
                  THEN /\ next_post_id \notin DOMAIN posts
                       /\ DOMAIN posts' = DOMAIN posts \cup {next_post_id}
                       /\ posts'[next_post_id].author = viewer
                       /\ \A p \in DOMAIN posts : posts'[p] = posts[p]
                  ELSE posts' = posts ]_vars

C14_Witness ==
    /\ response.route = "create_post"
    /\ response.method = "POST"
    /\ response.status = "redirect"
    /\ response.post_id \in DOMAIN posts
    /\ posts[response.post_id].author = response.user
    /\ ~posts[response.post_id].is_published

\* C15: a valid comment submission by an authenticated user against a stored
\* post, visible or not, adds exactly one comment whose author is the
\* submitter and whose comment_post is the post of the path; against a post
\* id that is not stored the answer is not-found and no comment is added.
C15_AddComment ==
    [][ (response'.route = "add_comment" /\ is_authenticated(response'.user)) =>
          LET viewer  == response'.user
              post_id == response'.post_id
              method  == response'.method
          IN  \A text \in {"t1", EmptyText} :
                add_comment(viewer, post_id, method, text) =>
                  IF post_id \notin DOMAIN posts
                  THEN response'.status = "not_found" /\ comments' = comments
                  ELSE (method = "POST" /\ comment_form_valid(text)) =>
                         /\ next_comment_id \notin DOMAIN comments
                         /\ DOMAIN comments' =
                               DOMAIN comments \cup {next_comment_id}
                         /\ comments'[next_comment_id].author = viewer
                         /\ comments'[next_comment_id].comment_post = post_id
                         /\ \A c \in DOMAIN comments :
                               comments'[c] = comments[c] ]_vars

C15_Witness ==
    /\ response.route = "add_comment"
    /\ response.status = "redirect"
    /\ response.comment_id \in DOMAIN comments
    /\ comments[response.comment_id].author = response.user
    /\ comments[response.comment_id].comment_post = response.post_id
    /\ posts[response.post_id].author # response.user
    /\ ~posts[response.post_id].is_published

\* C16: a request of an anonymous requester to a route that requires a
\* login (create, edit, delete post; add, edit, delete comment; edit
\* profile), read or submit, changes no post, comment or user record.
C16_AnonymousChangesNothing ==
    [][ ( /\ response'.user = Anonymous
          /\ response'.route \in {"create_post", "edit_post", "delete_post",
                                   "add_comment", "edit_comment",
                                   "delete_comment", "edit_profile"} ) =>
            /\ posts' = posts
            /\ comments' = comments
            /\ users' = users
            /\ profiles' = profiles ]_vars

C16_Witness ==
    /\ response.user = Anonymous
    /\ response.route = "delete_comment"
    /\ response.method = "POST"
    /\ response.status = "redirect"
    /\ response.target = "post_detail"
    /\ response.comment_id \in DOMAIN comments

\* C17: on the comment edit and delete routes the lookup is decided before
\* authorship: a missing post, a missing comment or a comment not linked
\* to the post of the path answers not-found to every requester, the
\* comment's author included, and changes nothing; the redirect of a
\* non-author is given only when the lookup succeeds.
C17_LookupBeforeAuthorship ==
    [][ response'.route \in {"edit_comment", "delete_comment"} =>
          LET viewer == response'.user
              p      == response'.post_id
              c      == response'.comment_id
              found  == /\ p \in DOMAIN posts
                        /\ c \in DOMAIN comments
                        /\ comments[c].comment_post = p
          IN  /\ ~found => /\ response'.status = "not_found"
                           /\ posts' = posts
                           /\ comments' = comments
              /\ found => response'.status # "not_found"
              /\ (found /\ comments[c].author # viewer) =>
                    /\ response'.status = "redirect"
                    /\ response'.target = "post_detail"
                    /\ response'.target_id = p
                    /\ posts' = posts
                    /\ comments' = comments ]_vars

C17_Witness ==
    /\ response.route \in {"edit_comment", "delete_comment"}
    /\ response.method = "POST"
    /\ response.status = "not_found"
    /\ response.post_id \in DOMAIN posts
    /\ response.comment_id \in DOMAIN comments
    /\ comments[response.comment_id].author = response.user

\* C18: for the comment's author, the delete path leaves the comment stored
\* on a read request and removes exactly that comment on a submit request;
\* the edit path never removes a comment, leaves its text unchanged on a
\* read request or an invalid submission, and stores the submitted text on
\* a valid submission.
C18_AuthorCommentMutation ==
    [][ response'.route \in {"edit_comment", "delete_comment"} =>
          LET viewer == response'.user
              p      == response'.post_id
              c      == response'.comment_id
              method == response'.method
              found  == /\ p \in DOMAIN posts
                        /\ c \in DOMAIN comments
                        /\ comments[c].comment_post = p
          IN  (found /\ comments[c].author = viewer) =>
                /\ posts' = posts
                /\ IF response'.route = "delete_comment"
                   THEN IF method = "POST"
                        THEN /\ response'.status = "redirect"
                             /\ comments' =
                                   [d \in DOMAIN comments \ {c} |-> comments[d]]
                        ELSE /\ response'.status = "ok"
                             /\ comments' = comments
                   ELSE /\ DOMAIN comments' = DOMAIN comments
                        /\ \A text \in {"t2", EmptyText} :
                              edit_comment(viewer, p, c, FALSE, method, text) =>
                                IF method = "POST" /\ text # EmptyText
                                THEN /\ response'.status = "redirect"
                                     /\ comments' =
                                           [comments EXCEPT ![c].text = text]
                                ELSE /\ response'.status = "ok"
                                     /\ comments' = comments ]_vars

C18_Witness ==
    /\ response.route = "edit_comment"
    /\ response.method = "POST"
    /\ response.status = "redirect"
    /\ response.comment_id \in DOMAIN comments
    /\ comments[response.comment_id].author = response.user
    /\ comments[response.comment_id].text = "t2"

\* C20: when two valid edit submissions of its author for the same comment,
\* or for the same post, have both finished, whatever the order of their
\* load and save steps, both ended in the success redirect, neither in an
\* error, and the stored row holds the values of the one that saved last.
C20_LastWriteWins ==
    \A r, q \in Requests :
        ( /\ r # q
          /\ inflight[r].pc = "done" /\ inflight[q].pc = "done"
          /\ inflight[r].instance # <<>> /\ inflight[q].instance # <<>>
          /\ inflight[r].route = inflight[q].route
          /\ inflight[r].pk = inflight[q].pk
          /\ response.request = r ) =>
            /\ inflight[r].status = "redirect"
            /\ inflight[q].status = "redirect"
            /\ response.status = "redirect"
            /\ response.target = "post_detail"
            /\ IF inflight[r].route = "edit_comment"
               THEN /\ inflight[r].pk \in DOMAIN comments
                    /\ comments[inflight[r].pk] = inflight[r].instance
               ELSE /\ inflight[r].pk \in DOMAIN posts
                    /\ posts[inflight[r].pk] = inflight[r].instance

C20_Witness ==
    /\ inflight["r1"].pc = "done" /\ inflight["r2"].pc = "done"
    /\ inflight["r1"].route = "edit_comment"
    /\ inflight["r2"].route = "edit_comment"
    /\ inflight["r1"].pk = inflight["r2"].pk
    /\ inflight["r1"].status = "redirect"
    /\ inflight["r2"].status = "redirect"
    /\ inflight["r1"].instance # <<>>
    /\ inflight["r2"].instance # <<>>
    /\ inflight["r1"].instance.text = "t2"
    /\ inflight["r2"].instance.text = "t3"
    /\ response.request = "r1"
    /\ comments[inflight["r1"].pk].text = "t2"


\* C21: when a delete submission and an edit submission of its author for
\* the same comment have both finished, the delete having removed the
\* comment before the edit saved, the comment is not stored.
C21_DeleteIsFinal ==
    \A d, e \in Requests :
        ( /\ d # e
          /\ inflight[d].pc = "done" /\ inflight[e].pc = "done"
          /\ inflight[d].route = "delete_comment"
          /\ inflight[e].route = "edit_comment"
          /\ inflight[d].instance # <<>> /\ inflight[e].instance # <<>>
          /\ inflight[d].pk = inflight[e].pk
          /\ response.request = e ) =>
            inflight[e].pk \notin DOMAIN comments


\* C22: over every create, edit, comment and delete request through the
\* routes, a post stored before and after the request keeps its author,
\* and a comment stored before and after keeps its author and its post.
C22_OwnershipFixed ==
    [][ /\ \A p \in DOMAIN posts \cap DOMAIN posts' :
              posts'[p].author = posts[p].author
        /\ \A c \in DOMAIN comments \cap DOMAIN comments' :
              /\ comments'[c].author = comments[c].author
              /\ comments'[c].comment_post = comments[c].comment_post ]_vars

C22_Witness ==
    /\ response.route = "edit_post"
    /\ response.method = "POST"
    /\ response.status = "redirect"
    /\ response.post_id \in DOMAIN posts
    /\ posts[response.post_id].pub_date = 1
    /\ posts[response.post_id].author = response.user
    /\ next_post_id = 2
    /\ \E c \in DOMAIN comments :
          /\ comments[c].text = "t2"
          /\ comments[c].author # response.user


\* C23: in every reachable state each stored comment references a stored
\* post and a stored user, each stored post references a stored author,
\* and each category or location reference of a post that is not null
\* points to a stored category or location.
C23_ReferentialIntegrity ==
    /\ \A c \in DOMAIN comments :
          /\ comments[c].comment_post \in DOMAIN posts
          /\ comments[c].author \in users
    /\ \A p \in DOMAIN posts :
          /\ posts[p].author \in users
          /\ posts[p].category # NullCategory =>
                posts[p].category \in DOMAIN categories
          /\ posts[p].location # NullLocation =>
                posts[p].location \in DOMAIN locations

C23_Witness ==
    /\ response.route = "delete_post"
    /\ response.status = "redirect"
    /\ response.target = "index"
    /\ response.post_id \notin DOMAIN posts
    /\ next_comment_id = 3
    /\ Cardinality(DOMAIN comments) = 1
    /\ DOMAIN locations = {}
    /\ \E p \in DOMAIN posts :
          /\ posts[p].location = NullLocation
          /\ posts[p].category = "c1"

====
